---- MODULE Spec2Model ----
(***************************************************************************)
(* A model of bot.py: the escalation scheduler (PENDING and the delayed    *)
(* _job tasks), the cross-channel duplicate detector (DUP_SEEN and         *)
(* DUP_ALERTED) and the reply-latency tracker (LAST_DRIVER_TS and STATS),  *)
(* composed per inbound message by driver_message_handler.                 *)
(*                                                                         *)
(* Scheduling.  The application is built without concurrent updates, so    *)
(* the framework awaits one handler to completion before it starts the     *)
(* next.  A handler can only be suspended in its awaits (the outbound      *)
(* send of a duplicate warning, and `await task` in cancel_pending), and   *)
(* the only code that runs meanwhile is a step of a _job task, which       *)
(* touches PENDING alone.  Each handler is therefore one action.  A _job   *)
(* task suspends twice, in asyncio.sleep and in send_message, so it is     *)
(* two steps (job_wake, job_finish) and a handler may run between them.    *)
(*                                                                         *)
(* Time.  `now` is the event loop's monotonic clock (asyncio.sleep),       *)
(* `wall` is time.time(), which may be set backwards.  Both are counted in *)
(* whole ticks.  A sleeping task whose deadline has come wakes before the  *)
(* loop clock advances further.                                            *)
(***************************************************************************)
EXTENDS Integers, Sequences, FiniteSets, Bags, TLC

\* ---------------------------------------------------------------- bounds
MaxTime == 4
MaxMsgs == 2
MaxWall == 3
MaxStats == 2
MaxRecs == 3

\* ------------------------------------------------ configuration (bot.py)
\* Scaled-down values of the environment settings; the code only compares
\* and adds them.
ALERT_DELAY_SECONDS == 2
DUP_TTL_SECONDS == 1
MAX_REPLY_WINDOW_SEC == 1
WARN_ON_DUP == TRUE

None == "None"
Chats == {"A", "B", "M"}
Keys == {"PIN:K1", "PIN:K2"}
\* Senders: a driver, a team member, and a bot account.
Users == {"drv", "tm", "bot"}
TEAM_USER_IDS == {"tm"}

VARIABLES
    MAIN_GROUP_ID,    \* a chat id or None
    INACTIVE_GROUPS,  \* set of paused chat ids
    PENDING,          \* dict: chat id -> <<task id, msg>>
    tasks,            \* the _job tasks that have not finished
    DUP_SEEN,         \* dict: key -> <<first_seen, first_group_id>>
    DUP_ALERTED,      \* set of <<key, group id>>
    LAST_DRIVER_TS,   \* dict: chat id -> wall time of the last driver message
    STATS,            \* the list of reply samples
    now,              \* loop clock
    wall,             \* time.time()
    nextMsg,          \* id of the next message that arms a timer
    escLog,           \* history: the bag of escalation sends _job has made
    dupCount,         \* history: warnings sent per <<key, chat>> for the record in DUP_SEEN
    dupLast,          \* history: the warnings sent by the last handler call
    dupPosted,        \* history: posts per <<key, chat>> the detector examined for the record
    rebased,          \* history: keys whose record replaced a purged one of another chat
    unmarked,         \* history: the marks removed by the last handler call or clear
    ignored,          \* history: chats in which, since their last armed timer, a
                      \*   message with identifiers met the handler's test for the
                      \*   MAIN chat or for a paused chat
    lastNQ,           \* history: chat -> its last driver message, and the number of
                      \*   messages before it, each replaced within the delay
    replied,          \* history: chats with a team reply handled since the last driver message
    quiet,            \* history: chats armed with MAIN set and not touched since
    samplesSince,     \* history: chat -> samples recorded since its last driver message
    repliedAgain,     \* history: chats with a team reply processed after such a sample
    stopped,          \* history: <<chat, "paused" or "removed">> for a pause command or a
                      \*   removal of the bot that found a timer pending, since the
                      \*   chat's last driver message
    dropped,          \* history: the messages whose task ended at a missing MAIN
                      \*   ("notarget") or at a failed send ("sendfailed")
    ANALYZE_TEAM,     \* set of usernames (the allow-list of the MyTeam analysis)
    analysis          \* the last analysis shown

vars == <<MAIN_GROUP_ID, INACTIVE_GROUPS, PENDING, tasks, DUP_SEEN, DUP_ALERTED,
          LAST_DRIVER_TS, STATS, now, wall, nextMsg, escLog, dupCount, dupLast, dupPosted, rebased,
          unmarked, ignored,
          lastNQ, replied, quiet, samplesSince, repliedAgain, stopped, dropped,
          ANALYZE_TEAM, analysis>>

schedVars == <<PENDING, tasks, escLog>>
dupVars == <<DUP_SEEN, DUP_ALERTED, dupCount, dupLast, dupPosted, rebased, unmarked, ignored>>
latVars == <<LAST_DRIVER_TS, STATS, samplesSince, repliedAgain>>
histVars == <<lastNQ, replied, quiet>>
aggVars == <<ANALYZE_TEAM, analysis>>

\* ------------------------------------------------------- dict helpers
Pop(d, k) == [x \in DOMAIN d \ {k} |-> d[x]]
Put(d, k, v) == [x \in DOMAIN d \cup {k} |-> IF x = k THEN v ELSE d[x]]
EmptyDict == [x \in {} |-> 0]

\* ------------------------------------------------------------ helpers
is_main_never(main, chat_id) == FALSE

is_main(main, chat_id) == main # None /\ chat_id = main

\* A sender test that takes no account for a bot.
is_bot_never(u) == FALSE

is_bot(u) == u = "bot"

is_team_user(u) == ~is_bot(u) /\ u \in TEAM_USER_IDS


\* ------------------------------------------------ escalation scheduler
\* The scheduler's part of the state, passed through the calls below.
Sched(P, T, L) == [P |-> P, T |-> T, L |-> L]

\* _job's finally clause: PENDING.pop(chat_id, None), whatever the entry is.
job_finally(P, chat_id) == Pop(P, chat_id)

\* A cancel_pending that pops the entry and leaves its task running.
cancel_pending_nocancel(S, chat_id) ==
    Sched(Pop(S.P, chat_id), S.T, S.L)

\* A cancel_pending that drops every entry of the table.
cancel_pending_clear(S, chat_id) ==
    Sched(EmptyDict, {t \in S.T : t.id \notin {S.P[c][1] : c \in DOMAIN S.P}}, S.L)

\* cancel_pending: pop the entry, cancel its task and await it.  The task
\* ends with CancelledError at the await it is suspended in (the sleep or
\* the send), and its finally clause runs before `await task` returns.
cancel_pending(S, chat_id) ==
    IF chat_id \notin DOMAIN S.P THEN S
    ELSE LET pair == S.P[chat_id]
             P1 == Pop(S.P, chat_id)
             hit == {t \in S.T : t.id = pair[1]}
         IN  IF hit = {} THEN Sched(P1, S.T, S.L)
             ELSE LET t == CHOOSE x \in hit : TRUE
                  IN  Sched(job_finally(P1, t.chat), S.T \ hit, S.L)

\* A schedule_alert without its `await cancel_pending(chat_id)`.
schedule_alert_nocancel(S, inactive, chat_id, msg, t0) ==
    IF chat_id \in inactive THEN S
    ELSE LET task == [id |-> msg.id, chat |-> chat_id, msg |-> msg,
                      wake |-> t0 + ALERT_DELAY_SECONDS, st |-> "sleeping"]
         IN  Sched(Put(S.P, chat_id, <<task.id, msg>>), S.T \cup {task}, S.L)

\* A schedule_alert that keeps a timer already pending (no restart).
schedule_alert_firstwins(S, inactive, chat_id, msg, t0) ==
    IF chat_id \in inactive \/ chat_id \in DOMAIN S.P THEN S
    ELSE LET task == [id |-> msg.id, chat |-> chat_id, msg |-> msg,
                      wake |-> t0 + ALERT_DELAY_SECONDS, st |-> "sleeping"]
         IN  Sched(Put(S.P, chat_id, <<task.id, msg>>), S.T \cup {task}, S.L)

\* A schedule_alert that stores the new timer before the old task is
\* cancelled, whose finally clause then pops the chat's entry.
schedule_alert_storefirst(S, inactive, chat_id, msg, t0) ==
    IF chat_id \in inactive THEN S
    ELSE LET task == [id |-> msg.id, chat |-> chat_id, msg |-> msg,
                      wake |-> t0 + ALERT_DELAY_SECONDS, st |-> "sleeping"]
             old == {t \in S.T : t.chat = chat_id}
         IN  IF old = {}
             THEN Sched(Put(S.P, chat_id, <<task.id, msg>>), S.T \cup {task}, S.L)
             ELSE Sched(Pop(S.P, chat_id), (S.T \ old) \cup {task}, S.L)

\* schedule_alert: nothing for a paused chat; otherwise cancel the chat's
\* timer, create the new task and store it with the message.
schedule_alert(S, inactive, chat_id, msg, t0) ==
    IF chat_id \in inactive THEN S
    ELSE LET S1 == cancel_pending(S, chat_id)
             task == [id |-> msg.id, chat |-> chat_id, msg |-> msg,
                      wake |-> t0 + ALERT_DELAY_SECONDS, st |-> "sleeping"]
         IN  Sched(Put(S1.P, chat_id, <<task.id, msg>>), S1.T \cup {task}, S1.L)

\* A _job that returns after its sleep without sending.
job_wake_silent(S, main, t, t0) ==
    Sched(Pop(S.P, t.chat), S.T \ {t}, S.L)

\* A _job that returns at a missing MAIN group and leaves its entry in PENDING.
job_wake_keepentry(S, main, t, t0) ==
    IF main = None
    THEN Sched(S.P, S.T \ {t}, S.L)
    ELSE Sched(S.P, (S.T \ {t}) \cup {[t EXCEPT !.st = "sending"]},
               S.L (+) SetToBag({[chat |-> t.chat, msg |-> t.msg, at |-> t0,
                                   to |-> main]}))

\* _job after asyncio.sleep returns: without a MAIN group the task returns
\* (through finally); otherwise it calls send_message and is suspended in it.
job_wake(S, main, t, t0) ==
    IF main = None
    THEN Sched(job_finally(S.P, t.chat), S.T \ {t}, S.L)
    ELSE Sched(S.P, (S.T \ {t}) \cup {[t EXCEPT !.st = "sending"]},
               S.L (+) SetToBag({[chat |-> t.chat, msg |-> t.msg, at |-> t0,
                                   to |-> main]}))

\* A _job that calls send_message again when it raised.
job_finish_retry(S, t, ok) ==
    IF ok THEN Sched(Pop(S.P, t.chat), S.T \ {t}, S.L)
    ELSE Sched(S.P, S.T, S.L (+) SetToBag({e \in BagToSet(S.L) : e.msg = t.msg}))

\* _job after send_message returns or raises: finally, and the task ends.
\* A failure is not caught in _job: the task ends with the exception.
job_finish(S, t, ok) ==
    Sched(job_finally(S.P, t.chat), S.T \ {t}, S.L)

\* ------------------------------------------------- duplicate detector
Dup(seen, alerted, sent) == [seen |-> seen, alerted |-> alerted, sent |-> sent]

\* A purge with `ts <= cutoff`.
_purge_expired_duplicates_le(seen, alerted, w) ==
    IF DOMAIN seen = {} THEN [seen |-> seen, alerted |-> alerted]
    ELSE LET cutoff == w - DUP_TTL_SECONDS
             kept == [k \in {x \in DOMAIN seen : ~(seen[x][1] <= cutoff)} |-> seen[k]]
         IN  [seen |-> kept,
              alerted |-> {m \in alerted : m[1] \in DOMAIN kept}]

\* A purge that drops the expired records and keeps every mark.
_purge_expired_duplicates_keepmarks(seen, alerted, w) ==
    IF DOMAIN seen = {} THEN [seen |-> seen, alerted |-> alerted]
    ELSE LET cutoff == w - DUP_TTL_SECONDS
             kept == [k \in {x \in DOMAIN seen : ~(seen[x][1] < cutoff)} |-> seen[k]]
         IN  [seen |-> kept, alerted |-> alerted]

_purge_expired_duplicates(seen, alerted, w) ==
    IF DOMAIN seen = {} THEN [seen |-> seen, alerted |-> alerted]
    ELSE LET cutoff == w - DUP_TTL_SECONDS
             kept == [k \in {x \in DOMAIN seen : ~(seen[x][1] < cutoff)} |-> seen[k]]
         IN  [seen |-> kept,
              alerted |-> {m \in alerted : m[1] \in DOMAIN kept}]

\* An iteration that does not look the mark up in DUP_ALERTED.
dup_check_key_nomark(R, key, chat_id, w, sendOk) ==
    IF key \notin DOMAIN R.seen
    THEN Dup(Put(R.seen, key, <<w, chat_id>>), R.alerted, R.sent)
    ELSE IF R.seen[key][2] = chat_id THEN R
    ELSE Dup(R.seen, R.alerted \cup {<<key, chat_id>>},
             R.sent \cup {[key |-> key, first |-> R.seen[key][2],
                           second |-> chat_id, at |-> w, ok |-> sendOk]})

\* An iteration that renews the record's timestamp at a post in its first chat.
dup_check_key_refresh(R, key, chat_id, w, sendOk) ==
    IF key \notin DOMAIN R.seen
    THEN Dup(Put(R.seen, key, <<w, chat_id>>), R.alerted, R.sent)
    ELSE IF R.seen[key][2] = chat_id
    THEN Dup(Put(R.seen, key, <<w, chat_id>>), R.alerted, R.sent)
    ELSE IF <<key, chat_id>> \in R.alerted THEN R
    ELSE Dup(R.seen, R.alerted \cup {<<key, chat_id>>},
             IF WARN_ON_DUP
             THEN R.sent \cup {[key |-> key, first |-> R.seen[key][2],
                                second |-> chat_id, at |-> w, ok |-> sendOk]}
             ELSE R.sent)

\* One iteration of the loop over the keys of a message.
dup_check_key(R, key, chat_id, w, sendOk) ==
    IF key \notin DOMAIN R.seen
    THEN Dup(Put(R.seen, key, <<w, chat_id>>), R.alerted, R.sent)
    ELSE IF R.seen[key][2] = chat_id THEN R
    ELSE IF <<key, chat_id>> \in R.alerted THEN R
    ELSE Dup(R.seen, R.alerted \cup {<<key, chat_id>>},
             IF WARN_ON_DUP
             THEN R.sent \cup {[key |-> key, first |-> R.seen[key][2],
                                second |-> chat_id, at |-> w, ok |-> sendOk]}
             ELSE R.sent)

RECURSIVE dup_loop(_, _, _, _, _)
dup_loop(R, keys, chat_id, w, sendOk) ==
    IF keys = {} THEN R
    ELSE LET key == CHOOSE k \in keys : TRUE
         IN  dup_loop(dup_check_key(R, key, chat_id, w, sendOk),
                      keys \ {key}, chat_id, w, sendOk)

\* process_pin_duplicate_forward for a message of a group chat; keys is
\* what _extract_pin_load_ids finds in its text.
process_pin_duplicate_forward(seen, alerted, main, chat_id, keys, w, sendOk) ==
    IF main = None \/ chat_id = main THEN Dup(seen, alerted, {})
    ELSE LET p == _purge_expired_duplicates(seen, alerted, w)
         IN  dup_loop(Dup(p.seen, p.alerted, {}), keys, chat_id, w, sendOk)

\* ---------------------------------------------- reply-latency tracker
\* Telegram's user.username and user.full_name of the senders; "tm2" is a
\* responder of earlier samples.
user_username(u) == IF u = "tm" THEN "Alex" ELSE IF u = "tm2" THEN "steve" ELSE None
user_full_name(u) == u

\* `(x or "")`
or_empty(x) == IF x = None THEN "" ELSE x

\* str.lower() on the usernames of the model.
lower(x) == IF x = "Alex" THEN "alex" ELSE x

\* Ticks per calendar month: the bucket of a timestamp is its
\* strftime("%Y-%m"), here the number of whole months since the epoch.
MonthTicks == 2
year_month(ts) == ts \div MonthTicks

_record_reply(stats, user_id, username, name, seconds, ts) ==
    Append(stats, [ts |-> ts, ym |-> year_month(ts), user_id |-> user_id,
                   username |-> lower(or_empty(username)), name |-> or_empty(name),
                   seconds |-> seconds])

\* The falsy values of `if last_ts:`.
Truthy(x) == x # 0

\* Step 2 without LAST_DRIVER_TS.pop after a team reply.
reply_analytics_nopop(last, stats, chat_id, u, w) ==
    IF is_team_user(u)
    THEN IF chat_id \in DOMAIN last /\ Truthy(last[chat_id])
         THEN LET diff == w - last[chat_id]
              IN  [last |-> last,
                   stats |-> IF 0 <= diff /\ diff <= MAX_REPLY_WINDOW_SEC
                             THEN _record_reply(stats, u, lower(or_empty(user_username(u))),
                                                user_full_name(u), diff, w)
                             ELSE stats]
         ELSE [last |-> last, stats |-> stats]
    ELSE [last |-> Put(last, chat_id, w), stats |-> stats]

\* Step 2 with `diff <= MAX_REPLY_WINDOW_SEC` alone as the test.
reply_analytics_nolower(last, stats, chat_id, u, w) ==
    IF is_team_user(u)
    THEN IF chat_id \in DOMAIN last /\ Truthy(last[chat_id])
         THEN LET diff == w - last[chat_id]
              IN  [last |-> Pop(last, chat_id),
                   stats |-> IF diff <= MAX_REPLY_WINDOW_SEC
                             THEN _record_reply(stats, u, lower(or_empty(user_username(u))),
                                                user_full_name(u), diff, w)
                             ELSE stats]
         ELSE [last |-> last, stats |-> stats]
    ELSE [last |-> Put(last, chat_id, w), stats |-> stats]

\* Step 2 of driver_message_handler, for a sender that is not a bot.
reply_analytics(last, stats, chat_id, u, w) ==
    IF is_team_user(u)
    THEN IF chat_id \in DOMAIN last /\ Truthy(last[chat_id])
         THEN LET diff == w - last[chat_id]
              IN  [last |-> Pop(last, chat_id),
                   stats |-> IF 0 <= diff /\ diff <= MAX_REPLY_WINDOW_SEC
                             THEN _record_reply(stats, u, lower(or_empty(user_username(u))),
                                                user_full_name(u), diff, w)
                             ELSE stats]
         ELSE [last |-> last, stats |-> stats]
    ELSE [last |-> Put(last, chat_id, w), stats |-> stats]

\* --------------------------------------------------- latency analysis
\* _build_analysis_text's inner _is_allowed_username, for the allow-list team.
_is_allowed_username(team, only_myteam, u) ==
    IF ~only_myteam THEN TRUE
    ELSE IF team = {} THEN FALSE
    ELSE lower(or_empty(u)) \in team

\* The loop over STATS that fills per_user.  A dict keeps its keys in the
\* order of insertion, so per_user is the sequence of its entries.
RECURSIVE per_user_loop(_, _, _, _, _)
per_user_loop(per_user, stats, month, only_myteam, team) ==
    IF stats = <<>> THEN per_user
    ELSE LET rec == Head(stats)
             uname == lower(or_empty(rec.username))
             at == {i \in DOMAIN per_user : per_user[i].uid = rec.user_id}
             upd == IF rec.ym # month THEN per_user
                    ELSE IF ~_is_allowed_username(team, only_myteam, uname) THEN per_user
                    ELSE IF at = {}
                    THEN Append(per_user, [uid |-> rec.user_id, name |-> rec.name,
                                           sum |-> rec.seconds, count |-> 1])
                    ELSE [i \in DOMAIN per_user |->
                             IF i \in at
                             THEN [per_user[i] EXCEPT !.sum = @ + rec.seconds,
                                                      !.count = @ + 1]
                             ELSE per_user[i]]
         IN  per_user_loop(upd, Tail(stats), month, only_myteam, team)

\* A sort key (avg, count): ties keep the smaller count first.
sort_key_less_countasc(a, b) ==
    \/ a.sum * b.count < b.sum * a.count
    \/ a.sum * b.count = b.sum * a.count /\ a.count < b.count

\* The order of the sort key (avg, -count), avg being sum / count: the
\* quotients of these small integers compare as the fractions do.
sort_key_less(a, b) ==
    \/ a.sum * b.count < b.sum * a.count
    \/ a.sum * b.count = b.sum * a.count /\ a.count > b.count

\* list.sort is stable: a row goes before the first row greater than it.
sorted_insert(rows, r) ==
    LET gt == {i \in DOMAIN rows : sort_key_less(r, rows[i])}
        k == IF gt = {} THEN Len(rows) + 1
             ELSE CHOOSE i \in gt : \A j \in gt : i <= j
    IN  SubSeq(rows, 1, k - 1) \o <<r>> \o SubSeq(rows, k, Len(rows))

RECURSIVE rows_sort(_, _)
rows_sort(done, rows) ==
    IF rows = <<>> THEN done
    ELSE rows_sort(sorted_insert(done, Head(rows)), Tail(rows))

\* int(round(sum / count)): round half to even.
int_round(sum, count) ==
    LET q == sum \div count
        r == sum % count
    IN  IF 2 * r < count THEN q
        ELSE IF 2 * r > count THEN q + 1
        ELSE IF q % 2 = 0 THEN q ELSE q + 1

\* _build_analysis_text: the sorted rows, and the lines rendered from them
\* (no row gives the "No data" text).  A row keeps the user id beside the
\* name the code puts in it.
_build_analysis_text(stats, month, only_myteam, team) ==
    LET per_user == per_user_loop(<<>>, stats, month, only_myteam, team)
        rows == rows_sort(<<>>, per_user)
    IN  [month |-> month, only_myteam |-> only_myteam, rows |-> rows,
         lines |-> [i \in DOMAIN rows |->
                       [rank |-> i, name |-> rows[i].name,
                        avg |-> int_round(rows[i].sum, rows[i].count),
                        n |-> rows[i].count]]]

\* tok.strip().lower().lstrip("@") on the arguments of the model.
setup_token(tok) ==
    IF tok = "@Alex" THEN "alex" ELSE IF tok = "@" THEN "" ELSE lower(tok)


\* ------------------------------------------------------------- state
\* No analysis was shown yet (no month).
NoAnalysis == [month |-> -1, only_myteam |-> FALSE, rows |-> <<>>, lines |-> <<>>]

Min(a, b) == IF a < b THEN a ELSE b

Init ==
    /\ MAIN_GROUP_ID = None
    /\ INACTIVE_GROUPS = {}
    /\ PENDING = EmptyDict
    /\ tasks = {}
    /\ DUP_SEEN = EmptyDict
    /\ DUP_ALERTED = {}
    /\ LAST_DRIVER_TS = EmptyDict
    /\ STATS = <<>>
    /\ now = 0
    /\ wall = 0
    /\ nextMsg = 1
    /\ escLog = EmptyBag
    /\ dupCount = [m \in Keys \X Chats |-> 0]
    /\ dupLast = {}
    /\ dupPosted = [m \in Keys \X Chats |-> 0]
    /\ rebased = {}
    /\ unmarked = {}
    /\ ignored = {}
    /\ lastNQ = EmptyDict
    /\ replied = {}
    /\ quiet = {}
    /\ samplesSince = [c \in Chats |-> 0]
    /\ repliedAgain = {}
    /\ stopped = {}
    /\ dropped = {}
    /\ ANALYZE_TEAM = {}
    /\ analysis = NoAnalysis

\* ----------------------------------------------------------- handlers
\* The condition under which step 2 calls _record_reply: a team member's
\* message, a stored timestamp that is truthy, and a reply inside the window.
record_reply_called(last, chat_id, u, w) ==
    /\ ~is_bot(u)
    /\ is_team_user(u)
    /\ chat_id \in DOMAIN last
    /\ Truthy(last[chat_id])
    /\ 0 <= w - last[chat_id]
    /\ w - last[chat_id] <= MAX_REPLY_WINDOW_SEC

\* driver_message_handler for a message of sender u in group chat_id whose
\* text holds the identifiers `keys`; sendOk is the outcome of the
\* duplicate warning's send_message, should one be sent.
driver_message_handler_run(chat_id, u, keys, sendOk, recordOk) ==
    IF is_main(MAIN_GROUP_ID, chat_id) \/ chat_id \in INACTIVE_GROUPS
    THEN /\ quiet' = quiet \ {chat_id}
         /\ dupLast' = {}
         /\ unmarked' = {}
         /\ ignored' = IF keys # {} THEN ignored \cup {chat_id} ELSE ignored
         /\ UNCHANGED <<MAIN_GROUP_ID, INACTIVE_GROUPS, schedVars, DUP_SEEN, DUP_ALERTED,
                        dupCount, dupPosted, rebased, latVars, now, wall, nextMsg,
                        lastNQ, replied, stopped, dropped, aggVars>>
    ELSE LET S == Sched(PENDING, tasks, escLog)
             msg == [id |-> nextMsg, chat |-> chat_id, at |-> now]
             team == is_team_user(u)
             arms == ~is_bot(u) /\ ~team
             ran == MAIN_GROUP_ID # None
             pending == chat_id \in DOMAIN PENDING
             \* _record_reply raises: nothing around step 2 catches it, and the
             \* exception leaves the handler there
             raised == ~recordOk /\ record_reply_called(LAST_DRIVER_TS, chat_id, u, wall)
         IN  \E d \in {process_pin_duplicate_forward(DUP_SEEN, DUP_ALERTED, MAIN_GROUP_ID,
                                                     chat_id, keys, wall, sendOk)},
                a \in {IF is_bot(u) \/ raised THEN [last |-> LAST_DRIVER_TS, stats |-> STATS]
                       ELSE reply_analytics(LAST_DRIVER_TS, STATS, chat_id, u, wall)},
                S2 \in {IF is_bot(u) \/ raised THEN S
                        ELSE IF team THEN cancel_pending(S, chat_id)
                        ELSE schedule_alert(S, INACTIVE_GROUPS, chat_id, msg, now)},
                \* history: the records that survive this call's purge
                pseen \in {IF ran
                           THEN _purge_expired_duplicates(DUP_SEEN, DUP_ALERTED, wall).seen
                           ELSE DUP_SEEN} :
             /\ arms => nextMsg <= MaxMsgs
             /\ Len(a.stats) <= MaxStats
             /\ PENDING' = S2.P
             /\ tasks' = S2.T
             /\ escLog' = S2.L
             /\ DUP_SEEN' = d.seen
             /\ DUP_ALERTED' = d.alerted
             /\ LAST_DRIVER_TS' = a.last
             /\ STATS' = a.stats
             /\ nextMsg' = IF arms THEN nextMsg + 1 ELSE nextMsg
             /\ dupLast' = d.sent
             /\ dupCount' = [m \in Keys \X Chats |->
                    IF m[1] \notin DOMAIN pseen THEN 0
                    ELSE Min(2, dupCount[m]
                                + Cardinality({e \in d.sent : e.key = m[1] /\ e.second = m[2]}))]
             /\ dupPosted' = [m \in Keys \X Chats |->
                    IF ran /\ m[1] \in keys /\ m[2] = chat_id
                    THEN IF m[1] \in DOMAIN pseen THEN Min(2, dupPosted[m] + 1) ELSE 1
                    ELSE IF m[1] \in DOMAIN pseen THEN dupPosted[m] ELSE 0]
             /\ rebased' = {k \in rebased : k \in DOMAIN pseen}
                           \cup {k \in keys : /\ k \in DOMAIN DUP_SEEN
                                              /\ k \notin DOMAIN pseen
                                              /\ DUP_SEEN[k][2] # chat_id}
             /\ unmarked' = IF ran
                            THEN DUP_ALERTED
                                 \ _purge_expired_duplicates(DUP_SEEN, DUP_ALERTED, wall).alerted
                            ELSE {}
             /\ lastNQ' = IF arms
                          THEN Put(lastNQ, chat_id,
                                   [msg |-> msg,
                                    burst |-> IF /\ pending
                                                 /\ chat_id \in DOMAIN lastNQ
                                                 /\ now - lastNQ[chat_id].msg.at
                                                        < ALERT_DELAY_SECONDS
                                              THEN Min(2, lastNQ[chat_id].burst + 1)
                                              ELSE 0])
                          ELSE lastNQ
             /\ replied' = IF arms THEN replied \ {chat_id}
                           ELSE IF team THEN replied \cup {chat_id} ELSE replied
             /\ quiet' = IF arms /\ MAIN_GROUP_ID # None
                         THEN quiet \cup {chat_id} ELSE quiet \ {chat_id}
             /\ samplesSince' = [samplesSince EXCEPT ![chat_id] =
                               IF arms THEN 0
                               ELSE IF Len(a.stats) > Len(STATS) THEN Min(2, @ + 1) ELSE @]
             /\ repliedAgain' = IF arms THEN repliedAgain \ {chat_id}
                                ELSE IF team /\ ~raised /\ samplesSince[chat_id] > 0
                                THEN repliedAgain \cup {chat_id} ELSE repliedAgain
             /\ stopped' = IF arms THEN {x \in stopped : x[1] # chat_id} ELSE stopped
             /\ ignored' = IF arms THEN ignored \ {chat_id} ELSE ignored
             /\ UNCHANGED <<MAIN_GROUP_ID, INACTIVE_GROUPS, now, wall, dropped, aggVars>>

\* The handler when nothing in step 2 raises.
driver_message_handler(chat_id, u, keys, sendOk) ==
    driver_message_handler_run(chat_id, u, keys, sendOk, TRUE)

\* The handler for a message at which _record_reply raises (the log is not
\* a list, or the timestamp has no calendar date).
driver_message_handler_raise(chat_id, u, keys, sendOk) ==
    /\ ~is_main(MAIN_GROUP_ID, chat_id)
    /\ chat_id \notin INACTIVE_GROUPS
    /\ record_reply_called(LAST_DRIVER_TS, chat_id, u, wall)
    /\ driver_message_handler_run(chat_id, u, keys, sendOk, FALSE)

\* A pause command that leaves the chat's timer alone.
inactivate_group_cmd_nocancel(chat_id) ==
    /\ INACTIVE_GROUPS' = INACTIVE_GROUPS \cup {chat_id}
    /\ quiet' = quiet \ {chat_id}
    /\ stopped' = IF chat_id \in DOMAIN PENDING
                  THEN stopped \cup {<<chat_id, "paused">>} ELSE stopped
    /\ UNCHANGED <<MAIN_GROUP_ID, schedVars, dupVars, latVars, now, wall, nextMsg,
                   lastNQ, replied, dropped, aggVars>>

\* _toggle_group_active(active=False), by an owner in group chat_id.
inactivate_group_cmd(chat_id) ==
    LET S2 == cancel_pending(Sched(PENDING, tasks, escLog), chat_id)
    IN  /\ INACTIVE_GROUPS' = INACTIVE_GROUPS \cup {chat_id}
        /\ PENDING' = S2.P
        /\ tasks' = S2.T
        /\ escLog' = S2.L
        /\ quiet' = quiet \ {chat_id}
        /\ stopped' = IF chat_id \in DOMAIN PENDING
                      THEN stopped \cup {<<chat_id, "paused">>} ELSE stopped
        /\ UNCHANGED <<MAIN_GROUP_ID, dupVars, latVars, now, wall, nextMsg,
                       lastNQ, replied, dropped, aggVars>>

\* _toggle_group_active(active=True).
activate_group_cmd(chat_id) ==
    /\ INACTIVE_GROUPS' = INACTIVE_GROUPS \ {chat_id}
    /\ UNCHANGED <<MAIN_GROUP_ID, schedVars, dupVars, latVars, now, wall, nextMsg, histVars,
                   stopped, dropped, aggVars>>

\* set_main_cmd, by an owner in group chat_id.
set_main_cmd(chat_id) ==
    /\ MAIN_GROUP_ID' = chat_id
    /\ UNCHANGED <<INACTIVE_GROUPS, schedVars, dupVars, latVars, now, wall, nextMsg, histVars,
                   stopped, dropped, aggVars>>

\* A my_chat_member that leaves the chat's timer alone.
my_chat_member_ignored(chat_id) ==
    /\ quiet' = quiet \ {chat_id}
    /\ stopped' = IF chat_id \in DOMAIN PENDING
                  THEN stopped \cup {<<chat_id, "removed">>} ELSE stopped
    /\ UNCHANGED <<MAIN_GROUP_ID, INACTIVE_GROUPS, schedVars, dupVars, latVars, now, wall,
                   nextMsg, lastNQ, replied, dropped, aggVars>>

\* my_chat_member with the new status KICKED or LEFT.
my_chat_member(chat_id) ==
    LET S2 == cancel_pending(Sched(PENDING, tasks, escLog), chat_id)
    IN  /\ PENDING' = S2.P
        /\ tasks' = S2.T
        /\ escLog' = S2.L
        /\ quiet' = quiet \ {chat_id}
        /\ stopped' = IF chat_id \in DOMAIN PENDING
                      THEN stopped \cup {<<chat_id, "removed">>} ELSE stopped
        /\ UNCHANGED <<MAIN_GROUP_ID, INACTIVE_GROUPS, dupVars, latVars, now, wall,
                       nextMsg, lastNQ, replied, dropped, aggVars>>

\* clearseen_cmd, by an owner.
clearseen_cmd ==
    /\ DUP_SEEN' = EmptyDict
    /\ DUP_ALERTED' = {}
    /\ dupCount' = [m \in Keys \X Chats |-> 0]
    /\ dupPosted' = [m \in Keys \X Chats |-> 0]
    /\ dupLast' = {}
    /\ rebased' = {}
    /\ unmarked' = DUP_ALERTED
    /\ UNCHANGED ignored
    /\ UNCHANGED <<MAIN_GROUP_ID, INACTIVE_GROUPS, schedVars, latVars, now, wall,
                   nextMsg, histVars, stopped, dropped, aggVars>>

\* analiz_cb, by an owner: the button "ANALYZE:<month>" or "ANALYZE_MY:<month>".
analiz_cb(month, only_myteam) ==
    /\ analysis' = _build_analysis_text(STATS, month, only_myteam, ANALYZE_TEAM)
    /\ UNCHANGED <<MAIN_GROUP_ID, INACTIVE_GROUPS, schedVars, dupVars, latVars, now, wall,
                   nextMsg, histVars, stopped, dropped, ANALYZE_TEAM>>

\* myteam_setup_cmd, by an owner, with the arguments args.
myteam_setup_cmd(args) ==
    /\ ANALYZE_TEAM' = {setup_token(tok) : tok \in args} \ {""}
    /\ UNCHANGED <<MAIN_GROUP_ID, INACTIVE_GROUPS, schedVars, dupVars, latVars, now, wall,
                   nextMsg, histVars, stopped, dropped, analysis>>

\* --------------------------------------------------------- _job steps
TimerExpire ==
    \E t \in tasks :
        /\ t.st = "sleeping"
        /\ t.wake <= now
        /\ LET S2 == job_wake(Sched(PENDING, tasks, escLog), MAIN_GROUP_ID, t, now)
           IN  /\ PENDING' = S2.P
               /\ tasks' = S2.T
               /\ escLog' = S2.L
        /\ dropped' = IF MAIN_GROUP_ID = None
                      THEN dropped \cup {[msg |-> t.msg, how |-> "notarget"]}
                      ELSE dropped
        /\ UNCHANGED <<MAIN_GROUP_ID, INACTIVE_GROUPS, dupVars, latVars, now, wall,
                       nextMsg, histVars, stopped, aggVars>>

SendDone ==
    \E t \in tasks, ok \in BOOLEAN :
        /\ t.st = "sending"
        /\ LET S2 == job_finish(Sched(PENDING, tasks, escLog), t, ok)
           IN  /\ PENDING' = S2.P
               /\ tasks' = S2.T
               /\ escLog' = S2.L
        /\ dropped' = IF ok THEN dropped
                      ELSE dropped \cup {[msg |-> t.msg, how |-> "sendfailed"]}
        /\ UNCHANGED <<MAIN_GROUP_ID, INACTIVE_GROUPS, dupVars, latVars, now, wall,
                       nextMsg, histVars, stopped, aggVars>>

\* ------------------------------------------------------------ clocks
Tick ==
    /\ now < MaxTime
    /\ \A t \in tasks : t.st = "sleeping" => t.wake > now
    /\ now' = now + 1
    /\ UNCHANGED <<MAIN_GROUP_ID, INACTIVE_GROUPS, schedVars, dupVars, latVars, wall,
                   nextMsg, histVars, stopped, dropped, aggVars>>

WallTick ==
    /\ wall < MaxWall
    /\ wall' = wall + 1
    /\ UNCHANGED <<MAIN_GROUP_ID, INACTIVE_GROUPS, schedVars, dupVars, latVars, now,
                   nextMsg, histVars, stopped, dropped, aggVars>>

\* The system clock is set back.
WallBack ==
    /\ \E w \in 0..(wall - 1) : wall' = w
    /\ UNCHANGED <<MAIN_GROUP_ID, INACTIVE_GROUPS, schedVars, dupVars, latVars, now,
                   nextMsg, histVars, stopped, dropped, aggVars>>

\* ---------------------------------------------------- specifications
\* The escalation scheduler: messages without identifiers, on the loop clock.
\* "A" and "B" are the watched driver groups; MAIN is set to "M" or to "A".
Watched == {"A", "B"}
EscMessage == \E c \in Watched, u \in Users : driver_message_handler(c, u, {}, TRUE)
Pause == \E c \in Watched : inactivate_group_cmd(c)
Activate == \E c \in Watched : activate_group_cmd(c)
SetMain == \E c \in {"A", "M"} : set_main_cmd(c)
BotRemoved == \E c \in Watched : my_chat_member(c)

Next ==
    \/ EscMessage
    \/ TimerExpire
    \/ SendDone
    \/ Tick
    \/ Pause
    \/ Activate
    \/ SetMain
    \/ BotRemoved

Spec == Init /\ [][Next]_vars

\* The duplicate detector: messages with identifiers, on the wall clock.
\* The detector does not read the sender; a bot's message leaves the other
\* two components idle.  The outcome of a send is drawn only when one is made.
DupMessage ==
    \E c \in Watched, keys \in SUBSET Keys, ok \in BOOLEAN :
        /\ ~ok => process_pin_duplicate_forward(DUP_SEEN, DUP_ALERTED, MAIN_GROUP_ID,
                                                c, keys, wall, ok).sent # {}
        /\ driver_message_handler(c, "bot", keys, ok)

NextDup ==
    \/ DupMessage
    \/ WallTick
    \/ clearseen_cmd
    \/ SetMain

SpecDup == Init /\ [][NextDup]_vars

\* The reply-latency tracker: driver messages and team replies, on a wall
\* clock that may also be set back.
LatMessage == \E c \in Watched, u \in Users : driver_message_handler(c, u, {}, TRUE)

NextLat ==
    \/ LatMessage
    \/ WallTick
    \/ WallBack

SpecLat == Init /\ [][NextLat]_vars

\* The three components on one message: a driver and a bot post in the
\* watched groups, with or without an identifier, while timers are pending
\* (the loop clock stands still); MAIN is set to "M".
MixMessage ==
    \E c \in Watched, u \in {"drv", "bot"}, keys \in SUBSET {"PIN:K1"} :
        driver_message_handler(c, u, keys, TRUE)

MixSetMain == set_main_cmd("M")

NextMix ==
    \/ MixMessage
    \/ WallTick
    \/ MixSetMain

SpecMix == Init /\ [][NextMix]_vars

\* One message through the tracker and the scheduler: drivers and a team
\* member post in the watched groups on the wall clock, timers pending, and
\* _record_reply may raise.
IsoMessage ==
    \E c \in Watched, u \in {"drv", "tm"} : driver_message_handler(c, u, {}, TRUE)

IsoRaise == \E c \in Watched : driver_message_handler_raise(c, "tm", {}, TRUE)

NextIso ==
    \/ IsoMessage
    \/ IsoRaise
    \/ WallTick

SpecIso == Init /\ [][NextIso]_vars

\* ----------------------------------------------- specification: paused chats
\* Drivers and team members write in A and B, with and without identifiers,
\* while B is paused and re-activated, A is designated MAIN and the wall
\* clock advances.
FrameMessage ==
    \E c \in Watched, u \in {"drv", "tm"}, keys \in SUBSET {"PIN:K1"} :
        driver_message_handler(c, u, keys, TRUE)

FramePause == inactivate_group_cmd("B")

FrameActivate == activate_group_cmd("B")

FrameSetMain == set_main_cmd("A")

NextFrame ==
    \/ FrameMessage
    \/ FramePause
    \/ FrameActivate
    \/ FrameSetMain
    \/ WallTick

SpecFrame == Init /\ [][NextFrame]_vars

\* The latency analysis: the log holds up to MaxRecs samples as _record_reply
\* writes them, of two responders in two months.
Responders == {"tm", "tm2"}
Months == {year_month(0), year_month(MonthTicks)}
AggSamples ==
    {_record_reply(<<>>, uid, un, user_full_name(uid), secs, ts)[1] :
        <<uid, un, secs, ts>> \in Responders \X {"Alex", "steve"}
                                  \X (0..MAX_REPLY_WINDOW_SEC) \X {0, MonthTicks}}

InitAgg ==
    /\ STATS \in UNION {[1..n -> AggSamples] : n \in 0..MaxRecs}
    /\ MAIN_GROUP_ID = None
    /\ INACTIVE_GROUPS = {}
    /\ PENDING = EmptyDict
    /\ tasks = {}
    /\ DUP_SEEN = EmptyDict
    /\ DUP_ALERTED = {}
    /\ LAST_DRIVER_TS = EmptyDict
    /\ now = 0
    /\ wall = 0
    /\ nextMsg = 1
    /\ escLog = EmptyBag
    /\ dupCount = [m \in Keys \X Chats |-> 0]
    /\ dupLast = {}
    /\ dupPosted = [m \in Keys \X Chats |-> 0]
    /\ rebased = {}
    /\ unmarked = {}
    /\ ignored = {}
    /\ lastNQ = EmptyDict
    /\ replied = {}
    /\ quiet = {}
    /\ samplesSince = [c \in Chats |-> 0]
    /\ repliedAgain = {}
    /\ stopped = {}
    /\ dropped = {}
    /\ ANALYZE_TEAM = {}
    /\ analysis = NoAnalysis

AnalizCb == \E month \in Months, only_myteam \in BOOLEAN : analiz_cb(month, only_myteam)
MyTeamSetup == \E args \in SUBSET {"@Alex", "steve", "@"} : myteam_setup_cmd(args)

NextAgg ==
    \/ AnalizCb
    \/ MyTeamSetup

SpecAgg == InitAgg /\ [][NextAgg]_vars


\* ------------------------------------------------------------- claims
TasksOf(c) == {t \in tasks : t.chat = c}
Events == BagToSet(escLog)
\* The escalation sends made by the step.
NewEsc == {e \in BagToSet(escLog') : CopiesIn(e, escLog') > CopiesIn(e, escLog)}

\* C1: in every reachable state each chat has at most one unfinished _job
\* task, also after its timer was re-armed (PENDING, a dict keyed by chat id,
\* holds at most one entry per chat by construction).
C1_OneTimerPerChannel ==
    \A c \in Chats : Cardinality(TasksOf(c)) <= 1

C1_Witness ==
    \E c \in DOMAIN lastNQ :
        /\ lastNQ[c].burst >= 1
        /\ c \in DOMAIN PENDING
        /\ Cardinality(TasksOf(c)) = 1

\* C2: no escalation is sent for a chat after a team reply was processed in
\* it (until its next driver message), nor less than the delay after the
\* chat's latest driver message: driver messages closer than the delay
\* followed by a reply in time give no escalation.
C2_Debounce ==
    [][\A e \in NewEsc :
          /\ e.chat \notin replied
          /\ e.chat \in DOMAIN lastNQ
          /\ now - lastNQ[e.chat].msg.at >= ALERT_DELAY_SECONDS]_vars

\* Driver messages closer than the delay, then a reply before the deadline.
C2_Witness ==
    \E c \in replied :
        /\ c \in DOMAIN lastNQ
        /\ lastNQ[c].burst >= 1
        /\ now < lastNQ[c].msg.at + ALERT_DELAY_SECONDS
        /\ c \notin DOMAIN PENDING
        /\ MAIN_GROUP_ID \notin {None, c}
        /\ escLog = EmptyBag

\* C3: a driver message in an active chat that is not MAIN, with MAIN set,
\* and nothing further in that chat, has no escalation before its deadline
\* and exactly one after it, sent at (arrival + delay).
C3_NaturalExpiry ==
    \A c \in quiet :
        LET m == lastNQ[c].msg
            ev == {e \in Events : e.msg = m}
        IN  /\ now < m.at + ALERT_DELAY_SECONDS => ev = {}
            /\ now > m.at + ALERT_DELAY_SECONDS =>
                  /\ Cardinality(ev) = 1
                  /\ \A e \in ev : /\ CopiesIn(e, escLog) = 1
                                   /\ e.chat = c
                                   /\ e.at = m.at + ALERT_DELAY_SECONDS

C3_Witness ==
    \E c \in quiet :
        /\ lastNQ[c].burst = 0
        /\ now > lastNQ[c].msg.at + ALERT_DELAY_SECONDS
        /\ \E e \in Events : e.msg = lastNQ[c].msg /\ e.at = e.msg.at + ALERT_DELAY_SECONDS

\* C4: every escalation sent carries the chat's most recent driver message,
\* is sent at (arrival of that message + delay), and is the only one sent
\* for that message.
C4_DebounceRestart ==
    [][\A e \in NewEsc :
          /\ e.chat \in DOMAIN lastNQ
          /\ e.msg = lastNQ[e.chat].msg
          /\ e.at = e.msg.at + ALERT_DELAY_SECONDS
          /\ CopiesIn(e, escLog') = 1
          /\ \A f \in Events : f.msg # e.msg]_vars

\* A second message restarted the timer, and the escalation carries it.
C4_Witness ==
    \E e \in Events :
        /\ e.chat \in quiet
        /\ lastNQ[e.chat].msg = e.msg
        /\ lastNQ[e.chat].burst >= 1
        /\ e.msg.at > 0
        /\ BagCardinality(escLog) = 1

\* C5: for a key with a record in DUP_SEEN whose first chat is A: no warning
\* was sent for posts in A, and for every other chat B exactly one warning
\* was sent if the key was posted in B and none otherwise; a warning names
\* the record's first chat as first and the posting chat as second.
C5_OneWarningPerChannel ==
    /\ \A k \in DOMAIN DUP_SEEN, c \in Chats :
          dupCount[<<k, c>>] =
              IF c # DUP_SEEN[k][2] /\ dupPosted[<<k, c>>] >= 1 THEN 1 ELSE 0
    /\ \A e \in dupLast :
          /\ e.key \in DOMAIN DUP_SEEN
          /\ e.first = DUP_SEEN[e.key][2]
          /\ e.second # e.first

\* The key was posted twice in A and twice in B.
C5_Witness ==
    \E k \in DOMAIN DUP_SEEN :
        /\ DUP_SEEN[k][2] = "A"
        /\ dupPosted[<<k, "A">>] = 2
        /\ dupPosted[<<k, "B">>] = 2
        /\ dupCount[<<k, "B">>] = 1

\* A step in which the detector examines a post of key k in chat c.
Posted(c, k) ==
    /\ MAIN_GROUP_ID \notin {None, c}
    /\ c \notin INACTIVE_GROUPS
    /\ dupPosted'[<<k, c>>] >= 1
    /\ \E keys \in SUBSET Keys, ok \in BOOLEAN :
          k \in keys /\ driver_message_handler(c, "bot", keys, ok)

\* C6: when a key whose record was first seen in chat A at t0 is posted in
\* another chat B at time wall: if wall - t0 > TTL the record is purged, no
\* warning is sent and B becomes the record's first chat; otherwise the
\* record is kept and the post is a duplicate (marked, and warned about
\* unless it was already marked).
C6_TtlExpiry ==
    [][\A c \in Chats, k \in Keys :
          (k \in DOMAIN DUP_SEEN /\ DUP_SEEN[k][2] # c /\ Posted(c, k)) =>
              IF wall - DUP_SEEN[k][1] > DUP_TTL_SECONDS
              THEN /\ DUP_SEEN'[k] = <<wall, c>>
                   /\ \A e \in dupLast' : e.key # k
                   /\ <<k, c>> \notin DUP_ALERTED'
              ELSE /\ DUP_SEEN'[k] = DUP_SEEN[k]
                   /\ <<k, c>> \in DUP_ALERTED'
                   /\ <<k, c>> \notin DUP_ALERTED =>
                         \E e \in dupLast' : /\ e.key = k
                                             /\ e.first = DUP_SEEN[k][2]
                                             /\ e.second = c]_vars

\* One message in B: one key re-based after its record expired, the other
\* a duplicate at exactly the TTL.
C6_Witness ==
    \E k \in rebased :
        /\ DUP_SEEN[k] = <<wall, "B">>
        /\ <<k, "B">> \notin DUP_ALERTED
        /\ \E e \in dupLast : /\ e.key # k
                              /\ e.second = "B"
                              /\ e.at = wall
                              /\ e.at - DUP_SEEN[e.key][1] = DUP_TTL_SECONDS

\* C7: at most one sample is recorded per driver message.
C7_OneSamplePerDriverMessage ==
    \A c \in Chats : samplesSince[c] <= 1

\* A reply recorded a sample of one second and a later reply recorded none.
C7_Witness ==
    \E c \in repliedAgain :
        /\ samplesSince[c] = 1
        /\ Len(STATS) = 1
        /\ STATS[1].seconds = 1

\* C8 (as claimed): after a team reply is processed in a chat, the chat has
\* no stored LAST_DRIVER_TS until its next driver message.
C8_MarkerCleared ==
    \A c \in replied : c \notin DOMAIN LAST_DRIVER_TS

\* The steps that call cancel_pending(c): a team member's message, the pause
\* command, and the bot's removal.
Disarm(c) ==
    /\ UNCHANGED <<now, nextMsg, MAIN_GROUP_ID>>
    /\ \/ my_chat_member(c)
       \/ inactivate_group_cmd(c)
       \/ driver_message_handler(c, "tm", {}, TRUE)

\* C9: a disarm of a chat that has no pending timer leaves the table, the
\* tasks of every chat and the escalations sent unchanged.
C9_IdempotentDisarm ==
    [][\A c \in Chats :
          (c \notin DOMAIN PENDING /\ Disarm(c)) => UNCHANGED schedVars]_vars

\* A reply was processed in a chat that never had a timer while the other
\* chat's timer is pending.
C9_Witness ==
    \E c \in replied, d \in DOMAIN PENDING :
        /\ c \notin DOMAIN lastNQ
        /\ d # c
        /\ TasksOf(d) # {}
        /\ escLog = EmptyBag

\* C10: every sample has 0 <= seconds <= MAX_REPLY_WINDOW_SEC, and message
\* handling only appends to STATS.
C10_SamplesInWindow ==
    [][/\ Len(STATS') >= Len(STATS)
       /\ SubSeq(STATS', 1, Len(STATS)) = STATS
       /\ \A i \in DOMAIN STATS' :
             0 <= STATS'[i].seconds /\ STATS'[i].seconds <= MAX_REPLY_WINDOW_SEC]_vars

\* Two samples, the second taken at an earlier wall time than the first.
C10_Witness ==
    /\ Len(STATS) = 2
    /\ STATS[2].ts < STATS[1].ts

\* C11 (as claimed): when the send of a duplicate warning for (key, chat B)
\* fails, the mark <<key, B>> added for it is retracted, so that the next
\* post of the key in B warns again.
C11_MarkRetracted ==
    \A e \in dupLast : ~e.ok => <<e.key, e.second>> \notin DUP_ALERTED

\* C12: a paused chat has no entry in PENDING and no live task, and no
\* escalation is sent for a chat whose timer a pause command found pending
\* (until the chat's next driver message), also after the chat is re-activated.
C12_PausedNeverArmed ==
    [][/\ \A c \in INACTIVE_GROUPS' :
             c \notin DOMAIN PENDING' /\ {t \in tasks' : t.chat = c} = {}
       /\ \A e \in NewEsc : <<e.chat, "paused">> \notin stopped]_vars

\* A chat paused while its timer was sleeping and re-activated before the
\* deadline of its driver message.
C12_Witness ==
    \E c \in DOMAIN lastNQ :
        /\ <<c, "paused">> \in stopped
        /\ c \notin INACTIVE_GROUPS
        /\ MAIN_GROUP_ID \notin {None, c}
        /\ now < lastNQ[c].msg.at + ALERT_DELAY_SECONDS
        /\ c \notin DOMAIN PENDING
        /\ \A e \in Events : e.chat # c

\* The samples of responder uid that an analysis of the month counts.
SamplesOf(uid, month, only_myteam) ==
    {i \in DOMAIN STATS : /\ STATS[i].ym = month
                          /\ STATS[i].user_id = uid
                          /\ only_myteam => STATS[i].username \in ANALYZE_TEAM}

RECURSIVE SumSeconds(_)
SumSeconds(I) ==
    IF I = {} THEN 0
    ELSE LET i == CHOOSE x \in I : TRUE
         IN  STATS[i].seconds + SumSeconds(I \ {i})

\* C13: an analysis of a month has exactly one row for each responder with
\* samples in that month (in MyTeam mode: samples whose username is on the
\* allow-list, the others counting nowhere), the row's count is the number
\* of those samples and its average their sum divided by the count; rows are
\* in ascending order of average, equal averages in descending order of count.
C13_Aggregation ==
    [][\A month \in Months, only_myteam \in BOOLEAN :
          analiz_cb(month, only_myteam) =>
              LET rows == analysis'.rows
              IN  /\ \A uid \in Responders :
                        LET I == SamplesOf(uid, month, only_myteam)
                            at == {i \in DOMAIN rows : rows[i].uid = uid}
                        IN  IF I = {} THEN at = {}
                            ELSE /\ Cardinality(at) = 1
                                 /\ \A i \in at : /\ rows[i].count = Cardinality(I)
                                                  /\ rows[i].sum = SumSeconds(I)
                  /\ \A i \in DOMAIN rows : rows[i].uid \in Responders
                  /\ \A i, j \in DOMAIN rows :
                        i < j =>
                            \/ rows[i].sum * rows[j].count < rows[j].sum * rows[i].count
                            \/ /\ rows[i].sum * rows[j].count = rows[j].sum * rows[i].count
                               /\ rows[i].count >= rows[j].count]_vars

\* A MyTeam analysis of two rows in ascending average that left a sample of
\* the month out.
C13_Witness ==
    /\ analysis # NoAnalysis
    /\ analysis.only_myteam
    /\ Len(analysis.rows) = 2
    /\ analysis.rows[1].sum * analysis.rows[2].count
           < analysis.rows[2].sum * analysis.rows[1].count
    /\ analysis.rows[1].count + analysis.rows[2].count
           < Cardinality({i \in DOMAIN STATS : STATS[i].ym = analysis.month})

\* C14 (as claimed): a task that is sending its escalation has already
\* removed its entry from PENDING, so no disarm or re-arm finds it.
C14_EntryRemovedBeforeEmit ==
    \A t \in tasks : t.st = "sending" => t.chat \notin DOMAIN PENDING

\* C15: every mark <<key, chat>> has a record of the key in DUP_SEEN whose
\* first chat is another chat, and a step that removes or replaces the
\* record of a key (the TTL purge, the clear command) leaves no mark of it.
C15_MarksInLockstep ==
    [][/\ \A m \in DUP_ALERTED' :
             m[1] \in DOMAIN DUP_SEEN' /\ DUP_SEEN'[m[1]][2] # m[2]
       /\ \A k \in DOMAIN DUP_SEEN :
             (k \notin DOMAIN DUP_SEEN' \/ DUP_SEEN'[k] # DUP_SEEN[k]) =>
                 \A c \in Chats : <<k, c>> \notin DUP_ALERTED']_vars

\* The purge removed the mark of a key in a chat, and the post that caused
\* it made that chat the first chat of the key's new record.
C15_Witness ==
    \E m \in unmarked :
        /\ m[1] \in DOMAIN DUP_SEEN
        /\ DUP_SEEN[m[1]] = <<wall, m[2]>>
        /\ m \notin DUP_ALERTED
        /\ \E x \in DUP_ALERTED : x[1] # m[1]

\* C16: the record of a key (first_seen, first chat) is left as it is by
\* every step, posts of the key in any chat included, unless the record has
\* outlived the TTL counted from its first_seen (the step's purge drops it)
\* or the step is the clear command.
C16_FirstWriteWins ==
    [][\A k \in DOMAIN DUP_SEEN :
          \/ k \in DOMAIN DUP_SEEN' /\ DUP_SEEN'[k] = DUP_SEEN[k]
          \/ wall - DUP_SEEN[k][1] > DUP_TTL_SECONDS
          \/ clearseen_cmd]_vars

\* A key posted twice in its first chat, then at a later time in another
\* chat, where it is a duplicate of the unchanged record.
C16_Witness ==
    \E e \in dupLast :
        /\ e.at = wall
        /\ e.key \in DOMAIN DUP_SEEN
        /\ DUP_SEEN[e.key] = <<e.at - DUP_TTL_SECONDS, e.first>>
        /\ dupPosted[<<e.key, e.first>>] = 2
        /\ dupPosted[<<e.key, e.second>>] = 1

\* C17: the removal of the bot from a chat leaves the chat without entry in
\* PENDING and without live task, and no escalation is sent for a chat whose
\* timer a removal found pending, until the chat's next driver message.
C17_BotRemoval ==
    [][/\ \A c \in Chats :
             (now' = now /\ nextMsg' = nextMsg /\ my_chat_member(c)) =>
                 c \notin DOMAIN PENDING' /\ {t \in tasks' : t.chat = c} = {}
       /\ \A e \in NewEsc : <<e.chat, "removed">> \notin stopped]_vars

\* The bot was removed from a chat while its timer was sleeping; the
\* deadline has passed without an escalation of that chat, while MAIN was
\* set in time (the other chat's escalation was sent by then).
C17_Witness ==
    \E c \in DOMAIN lastNQ :
        /\ stopped = {<<c, "removed">>}
        /\ c \notin INACTIVE_GROUPS
        /\ c \notin replied
        /\ now > lastNQ[c].msg.at + ALERT_DELAY_SECONDS
        /\ \A e \in Events : e.chat # c /\ e.to # c
        /\ \E e \in Events : e.at <= lastNQ[c].msg.at + ALERT_DELAY_SECONDS

\* C18: a timer that expires while MAIN is not set sends nothing and leaves
\* its chat without entry in PENDING and without live task; no escalation is
\* ever sent for its message; and a later driver message of that chat, armed
\* with MAIN set and left alone, has exactly one escalation, at its deadline.
C18_NoTargetAtExpiry ==
    [][/\ (MAIN_GROUP_ID = None /\ TimerExpire) =>
             /\ escLog' = escLog
             /\ \E d \in dropped' \ dropped :
                   /\ d.how = "notarget"
                   /\ d.msg.chat \notin DOMAIN PENDING'
                   /\ {t \in tasks' : t.chat = d.msg.chat} = {}
       /\ \A d \in dropped :
             d.how = "notarget" =>
                 /\ \A e \in BagToSet(escLog') : e.msg # d.msg
                 /\ d.msg.chat \in quiet /\ now > lastNQ[d.msg.chat].msg.at + ALERT_DELAY_SECONDS =>
                       \E e \in Events :
                           /\ e.msg = lastNQ[d.msg.chat].msg
                           /\ e.at = e.msg.at + ALERT_DELAY_SECONDS
                           /\ CopiesIn(e, escLog) = 1
                           /\ \A f \in Events : f.msg = e.msg => f = e]_vars

\* A timer expired without MAIN; MAIN was set, and the next driver message
\* of the same chat was escalated at its deadline.
C18_Witness ==
    \E d \in dropped, e \in Events :
        /\ d.how = "notarget"
        /\ e.chat = d.msg.chat
        /\ e.msg.id > d.msg.id
        /\ e.at = e.msg.at + ALERT_DELAY_SECONDS
        /\ d.msg.chat \notin DOMAIN PENDING

\* C19: when the send of an escalation fails, the step removes the chat's
\* entry and the task, sends nothing, and leaves the entries and tasks of
\* the other chats as they are; the message of a failed send never has a
\* second send.
C19_SendFailureDropped ==
    [][/\ \A d \in dropped' \ dropped :
             d.how = "sendfailed" =>
                 /\ d.msg.chat \notin DOMAIN PENDING'
                 /\ \A t \in tasks' : t.msg # d.msg
                 /\ escLog' = escLog
                 /\ \A c \in Chats \ {d.msg.chat} :
                       /\ c \in DOMAIN PENDING <=> c \in DOMAIN PENDING'
                       /\ c \in DOMAIN PENDING => PENDING'[c] = PENDING[c]
                       /\ {t \in tasks' : t.chat = c} = {t \in tasks : t.chat = c}
       /\ \A d \in dropped :
             d.how = "sendfailed" =>
                 /\ \A t \in tasks' : t.msg # d.msg
                 /\ \A e \in BagToSet(escLog') :
                       e.msg = d.msg => CopiesIn(e, escLog') = 1]_vars

\* The send of one chat's escalation has failed and its entry is gone,
\* while the other chat's timer is still asleep with its entry.
C19_Witness ==
    \E d \in dropped, f \in Events, t \in tasks :
        /\ d.how = "sendfailed"
        /\ f.msg = d.msg
        /\ CopiesIn(f, escLog) = 1
        /\ d.msg.chat \notin DOMAIN PENDING
        /\ t.chat # d.msg.chat
        /\ t.st = "sleeping"
        /\ t.msg.at < f.at
        /\ t.chat \in DOMAIN PENDING
        /\ PENDING[t.chat][1] = t.id

\* C20: a message of a bot account leaves LAST_DRIVER_TS, STATS, PENDING,
\* the tasks and the escalations sent unchanged, whatever identifiers it
\* carries and whatever the duplicate detector does with them.
C20_BotMessageFrame ==
    [][\A c \in Chats, keys \in SUBSET Keys, ok \in BOOLEAN :
          (wall' = wall /\ driver_message_handler(c, "bot", keys, ok)) =>
              UNCHANGED <<LAST_DRIVER_TS, STATS, PENDING, tasks, escLog>>]_vars

\* The last message raised a duplicate warning in a chat whose timer is
\* pending and whose stored driver timestamp is older than the message and
\* not zero: its sender was neither a driver (the timestamp would be the
\* message's) nor a team member (the timestamp would be gone).
C20_Witness ==
    \E e \in dupLast :
        /\ e.second \in DOMAIN PENDING
        /\ TasksOf(e.second) # {}
        /\ e.second \in DOMAIN LAST_DRIVER_TS
        /\ LAST_DRIVER_TS[e.second] > 0
        /\ LAST_DRIVER_TS[e.second] < e.at
        /\ e.at = wall
        /\ <<e.key, e.second>> \in DUP_ALERTED

\* C21 (as claimed): a team member's reply at which the recording of the
\* sample fails still removes the chat's stored driver timestamp and still
\* disarms the chat's timer.
C21_FailureIsolation ==
    [][\A c \in Chats :
          driver_message_handler_raise(c, "tm", {}, TRUE) =>
              /\ c \notin DOMAIN LAST_DRIVER_TS'
              /\ c \notin DOMAIN PENDING'
              /\ {t \in tasks' : t.chat = c} = {}]_vars

\* C22 (as claimed): no escalation is sent to the chat its message came from.
C22_NoEscalationToSelf ==
    \A e \in Events : e.chat # e.to

\* C23: after every step, each entry of PENDING refers to the one unfinished
\* task of its chat and each unfinished task is the one its chat's entry
\* refers to; and an entry is removed or replaced only in a step in which
\* its own task ends (no task that finishes removes the entry of another).
C23_NoStalePop ==
    [][/\ \A c \in DOMAIN PENDING' :
             /\ Cardinality({t \in tasks' : t.chat = c}) = 1
             /\ \A t \in tasks' : t.chat = c =>
                   t.id = PENDING'[c][1] /\ t.msg = PENDING'[c][2]
       /\ \A t \in tasks' :
             t.chat \in DOMAIN PENDING' /\ PENDING'[t.chat][1] = t.id
       /\ \A c \in DOMAIN PENDING :
             (c \notin DOMAIN PENDING' \/ PENDING'[c] # PENDING[c]) =>
                 /\ \E t \in tasks : t.id = PENDING[c][1]
                 /\ \A t \in tasks' : t.id # PENDING[c][1]]_vars

\* A chat's timer was re-armed in the very tick in which its older task woke
\* and sent: the older task has finished, the newer one sleeps with its entry.
C23_Witness ==
    \E c \in DOMAIN PENDING, e \in Events :
        /\ e.chat = c
        /\ e.msg.id < PENDING[c][2].id
        /\ PENDING[c][2].at = e.at
        /\ \E t \in tasks : /\ t.id = PENDING[c][1]
                            /\ t.st = "sleeping"
        /\ Cardinality(TasksOf(c)) = 1

\* C24: a message received in a paused chat, or in the MAIN chat, changes no
\* state of the duplicate detector, the latency tracker or the scheduler: no
\* record, no mark, no duplicate event, no change of the chat's
\* LAST_DRIVER_TS entry, no latency sample, no timer armed or disarmed.
\* Pausing and re-activating leave LAST_DRIVER_TS alone too, so a timestamp
\* stored before a pause is still there after the chat is re-activated.
C24_PausedOrMainFrame ==
    [][/\ \A c \in Chats :
              (c = MAIN_GROUP_ID \/ c \in INACTIVE_GROUPS) =>
                  ((\E u \in Users, keys \in SUBSET Keys, sendOk \in BOOLEAN :
                        driver_message_handler(c, u, keys, sendOk)) =>
                     /\ UNCHANGED <<DUP_SEEN, DUP_ALERTED, dupCount, dupPosted>>
                     /\ dupLast' = {}
                     /\ UNCHANGED <<LAST_DRIVER_TS, STATS>>
                     /\ UNCHANGED <<PENDING, tasks, escLog>>)
       /\ \A c \in INACTIVE_GROUPS :
              c \in DOMAIN LAST_DRIVER_TS =>
                  c \in DOMAIN LAST_DRIVER_TS' /\ LAST_DRIVER_TS'[c] = LAST_DRIVER_TS[c]
       /\ \A c \in Chats :
              (inactivate_group_cmd(c) \/ activate_group_cmd(c)) =>
                  UNCHANGED <<LAST_DRIVER_TS, STATS, DUP_SEEN, DUP_ALERTED>>]_vars

\* B's driver wrote at wall time 1 and armed a timer; B was paused with the
\* timer pending, a message with an identifier arrived there, and B is
\* active again at wall time 2: the timestamp is still stored, and neither
\* that message nor the one with an identifier in the MAIN chat A left a
\* record, a sample or a timer.
C24_Witness ==
    /\ MAIN_GROUP_ID = "A"
    /\ {"A", "B"} \subseteq ignored
    /\ "B" \notin INACTIVE_GROUPS
    /\ <<"B", "paused">> \in stopped
    /\ "B" \in DOMAIN LAST_DRIVER_TS
    /\ LAST_DRIVER_TS["B"] = 1
    /\ wall = 2
    /\ DUP_SEEN = EmptyDict
    /\ DUP_ALERTED = {}
    /\ STATS = <<>>
    /\ PENDING = EmptyDict
    /\ tasks = {}
====
